---- MODULE Spec2Model ----
(***************************************************************************)
(* Six Nations predictor: identity resolution of a lineup, squad           *)
(* aggregation, the fusion model (simulate_match) and the grid-search      *)
(* calibrator.                                                             *)
(*                                                                         *)
(* Numbers.  The program computes in binary64.  The model computes in      *)
(* decimal fixed point: every quantity is an integer number of 1/Scale     *)
(* (skills, margins, weights, ratings: 75.0 is 7500, 0.65 is 65), and      *)
(* every multiplication and division rounds to the nearest 1/Scale, ties   *)
(* away from zero (the rounding is symmetric in sign, as binary64's is).   *)
(* Additions, negations and comparisons are exact.  A win probability is   *)
(* kept in units of 1/(2*Scale), because the program's final               *)
(* multiplication by 0.5 is exact in binary and loses nothing.             *)
(***************************************************************************)
EXTENDS Integers, Sequences, FiniteSets, TLC

VARIABLES
    \* the predictor (match_predictor.py)
    df,           \* the resolved-player table handed to simulate_match
    home,         \* simulate_match's arguments of the last call
    away,
    params,
    pred,         \* what the last simulate_match call produced
    report,       \* what the predictor's main loop printed for it
    \* the identity resolver (squad_builder.py)
    db_df,        \* the rating table
    player_name,  \* match_player_data's arguments of the last call
    query_team,
    found,        \* what the last match_player_data call returned
    \* the lineup loader (optimize_params.py, squad_builder.py)
    sheet,        \* the lineup file of the match
    match_squad,  \* what load_match_squads returned or raised for it
    \* the calibrator (optimize_params.py, grid_search)
    files,        \* the data directory: the lineup file of each match
    changed,      \* a lineup file was replaced while the search ran
    pc,           \* where grid_search stands
    counter,      \* grid_search's locals
    results,
    best_rmse,
    best_params,
    results_df,
    current_metrics,
    improvement,
    raised,       \* the exception that left grid_search
    trials,       \* log: the evaluate_params calls of the sweep
    default_config,  \* the contents of match_predictor's DEFAULT_CONFIG dict
    \* evaluate_params run on its own (optimize_params.py)
    real_matches,  \* the contents of the REAL_RESULTS list
    trial,         \* evaluate_params' arguments
    evals,         \* log: the evaluate_params calls made, each with the list it ran on
    \* calculate_metrics run on its own (optimize_params.py)
    predictions_arg,   \* calculate_metrics' arguments
    real_results_arg,
    metrics_result     \* what the call returned or raised

simVars == <<df, home, away, params, pred, report>>

resVars == <<db_df, player_name, query_team, found>>

loadVars == <<sheet, match_squad>>

gridVars == <<files, changed, pc, counter, results, best_rmse, best_params,
              results_df, current_metrics, improvement, raised, trials,
              default_config>>

evalVars == <<real_matches, trial, evals>>

metricVars == <<predictions_arg, real_results_arg, metrics_result>>

vars == <<simVars, resVars, loadVars, gridVars, evalVars, metricVars>>

----------------------------------------------------------------------------
(* Fixed-point arithmetic *)

Scale == 100

Abs(x) == IF x < 0 THEN -x ELSE x

Sign(x) == IF x < 0 THEN -1 ELSE IF x > 0 THEN 1 ELSE 0

\* a / b rounded to the nearest integer, ties away from zero (b # 0)
RoundDiv(a, b) ==
    Sign(a) * Sign(b) * ((2 * Abs(a) + Abs(b)) \div (2 * Abs(b)))

FMul(a, b) == RoundDiv(a * b, Scale)

FDiv(a, b) == RoundDiv(a * Scale, b)

RECURSIVE SumSeq(_)
SumSeq(s) == IF s = <<>> THEN 0 ELSE Head(s) + SumSeq(Tail(s))

\* Python values that are not numbers
None == [none |-> TRUE]

Raise(exc) == [raise |-> exc]

IsNone(v) == "none" \in DOMAIN v

IsRaise(v) == "raise" \in DOMAIN v

----------------------------------------------------------------------------
(* match_predictor.py *)

DEFAULT_CONFIG ==
    [ HOME_ADVANTAGE          |-> 200,
      STD_DEV                 |-> 1350,
      WEIGHT_MODEL_TACTICAL   |-> 65,
      WEIGHT_MODEL_ELO        |-> 35,
      WEIGHT_PACK             |-> 40,
      WEIGHT_CONTROL          |-> 35,
      WEIGHT_STRIKE           |-> 25,
      WEIGHT_STARTERS         |-> 80,
      WEIGHT_BENCH            |-> 20,
      TACTICAL_SCALING_FACTOR |-> 85,
      ELO_SCALING             |-> 70,
      MISMATCH_THRESHOLD      |-> 400,
      MISMATCH_BONUS          |-> 500 ]

WR_ELO ==
    [ Ireland  |-> 8797,
      France   |-> 8724,
      England  |-> 8941,
      Scotland |-> 8022,
      Italy    |-> 7898,
      Wales    |-> 7423 ]

\* WR_ELO.get(team, 75.0)
EloGet(team) == IF team \in DOMAIN WR_ELO THEN WR_ELO[team] ELSE 7500

\* A DataFrame: its column names and its rows in order.  pd.DataFrame(list of
\* dicts) has the dicts' keys as columns, and no column at all for an empty list.
AllCols == {"country", "name", "position_group", "skill", "starting", "shirt_number"}

DataFrame(rows) ==
    [columns |-> IF rows = <<>> THEN {} ELSE AllCols, rows |-> rows]

\* df.empty
Empty(d) == d.columns = {} \/ d.rows = <<>>

\* d[d[column].isin(values)]: the rows whose column holds one of the values,
\* the columns kept
Filter(d, column, values) ==
    LET Keep(r) == r[column] \in values
    IN  [columns |-> d.columns, rows |-> SelectSeq(d.rows, Keep)]

\* d[~d[column].isin(values)]
FilterNot(d, column, values) ==
    LET Keep(r) == r[column] \notin values
    IN  [columns |-> d.columns, rows |-> SelectSeq(d.rows, Keep)]

\* df['skill'].mean() of a non-empty frame
RECURSIVE SkillSum(_)
SkillSum(rows) == IF rows = <<>> THEN 0 ELSE Head(rows).skill + SkillSum(Tail(rows))

SkillMean(d) == RoundDiv(SkillSum(d.rows), Len(d.rows))

get_unit_average(df_subset, unit_type) ==
    IF Empty(df_subset) THEN 7000
    ELSE IF unit_type = "Pack" THEN
        LET pack == Filter(df_subset, "position_group", {"Forwards"})
        IN  IF ~Empty(pack) THEN SkillMean(pack) ELSE 7000
    ELSE IF unit_type = "Control" THEN
        LET halfbacks == Filter(df_subset, "shirt_number", {9, 10})
            backs     == Filter(df_subset, "position_group", {"Backs"})
        IN  IF "shirt_number" \in df_subset.columns /\ ~Empty(halfbacks)
            THEN SkillMean(halfbacks)
            ELSE IF ~Empty(backs) THEN SkillMean(backs) ELSE 7000
    ELSE IF unit_type = "Strike" THEN
        LET backs  == Filter(df_subset, "position_group", {"Backs"})
            strike == FilterNot(backs, "shirt_number", {9, 10})
        IN  IF "shirt_number" \in df_subset.columns /\ ~Empty(strike)
            THEN SkillMean(strike)
            ELSE IF ~Empty(backs) THEN SkillMean(backs) ELSE 7000
    ELSE 7000

\* score of one subset (starting XV or bench)
UnitScore(subset, p) ==
    LET fw == Filter(subset, "position_group", {"Forwards"})
        bk == Filter(subset, "position_group", {"Backs"})
    IN  [ pack  |-> get_unit_average(fw, "Pack"),
          score |-> FMul(get_unit_average(fw, "Pack"), p.WEIGHT_PACK)
                    + FMul(get_unit_average(bk, "Control"), p.WEIGHT_CONTROL)
                    + FMul(get_unit_average(bk, "Strike"), p.WEIGHT_STRIKE) ]

get_tactical_metrics(d, country, p) ==
    IF "country" \notin d.columns THEN Raise("KeyError")
    ELSE
    LET squad == Filter(d, "country", {country})
    IN  IF Empty(squad) THEN None
        ELSE
        LET xv == UnitScore(Filter(squad, "starting", {1}), p)
            bn == UnitScore(Filter(squad, "starting", {0}), p)
        IN  [ total_score |-> FMul(xv.score, p.WEIGHT_STARTERS)
                              + FMul(bn.score, p.WEIGHT_BENCH),
              pack_xv     |-> xv.pack,
              pack_bench  |-> bn.pack ]

\* lines 128-130
PackDiff(h, a) ==
    (FMul(70, h.pack_xv) + FMul(30, h.pack_bench))
    - (FMul(70, a.pack_xv) + FMul(30, a.pack_bench))

\* mutant: the bonus is applied from the threshold on, not above it
MismatchBonus_AtThreshold(pack_diff, p) ==
    IF pack_diff >= p.MISMATCH_THRESHOLD THEN p.MISMATCH_BONUS
    ELSE IF pack_diff =< -p.MISMATCH_THRESHOLD THEN -p.MISMATCH_BONUS
    ELSE 0

\* mutant: the away side's advantage is not penalised
MismatchBonus_HomeOnly(pack_diff, p) ==
    IF pack_diff > p.MISMATCH_THRESHOLD THEN p.MISMATCH_BONUS ELSE 0

\* lines 132-135: what is added to the tactical margin
MismatchBonus(pack_diff, p) ==
    IF pack_diff > p.MISMATCH_THRESHOLD THEN p.MISMATCH_BONUS
    ELSE IF pack_diff < -p.MISMATCH_THRESHOLD THEN -p.MISMATCH_BONUS
    ELSE 0

\* mutant: the home advantage is added to the tactical margin before weighting
Fusion_HomeAdvantageWeighted(margin_tactical, margin_elo, p) ==
    FMul(margin_tactical + p.HOME_ADVANTAGE, p.WEIGHT_MODEL_TACTICAL)
    + FMul(margin_elo, p.WEIGHT_MODEL_ELO)

\* lines 143-145
Fusion(margin_tactical, margin_elo, p) ==
    FMul(margin_tactical, p.WEIGHT_MODEL_TACTICAL)
    + FMul(margin_elo, p.WEIGHT_MODEL_ELO)
    + p.HOME_ADVANTAGE

\* math.erf at 0.0, 0.1, ..., 2.0, rounded to 1/Scale
ErfTable ==
    <<0, 11, 22, 33, 43, 52, 60, 68, 74, 80, 84, 88, 91, 93, 95, 97, 98, 98, 99, 99, 100>>

\* math.erf(x): odd, linear between the table's points, 1.0 beyond them
\* (binary64's erf is exactly 1.0 from about 5.93 on)
Erf(x) ==
    LET ax == Abs(x)
        i  == ax \div 10
        r  == ax % 10
        v  == IF i >= 20 THEN Scale
              ELSE ErfTable[i + 1] + RoundDiv((ErfTable[i + 2] - ErfTable[i + 1]) * r, 10)
    IN  Sign(x) * v

\* math.sqrt(2)
Sqrt2 == 141

\* mutant: the away side's probability is returned
WinProbability_OfAway(final_margin, p) ==
    LET z_score == FDiv(final_margin, p.STD_DEV)
    IN  Scale - Erf(FDiv(z_score, Sqrt2))

\* lines 148-149, in units of 1/(2*Scale): Scale stands for probability 0.5
WinProbability(final_margin, p) ==
    LET z_score == FDiv(final_margin, p.STD_DEV)
    IN  Scale + Erf(FDiv(z_score, Sqrt2))

simulate_match(h, a, d, p) ==
    LET h_metrics == get_tactical_metrics(d, h, p)
        a_metrics == get_tactical_metrics(d, a, p)
    IN  IF IsRaise(h_metrics) THEN h_metrics
        ELSE IF IsRaise(a_metrics) THEN a_metrics
        ELSE IF IsNone(h_metrics) \/ IsNone(a_metrics)
        THEN [error |-> [text |-> "Missing data in CSV for", names |-> <<h, a>>]]
        ELSE
        LET pack_diff       == PackDiff(h_metrics, a_metrics)
            margin_tactical == FMul(h_metrics.total_score - a_metrics.total_score,
                                    p.TACTICAL_SCALING_FACTOR)
                               + MismatchBonus(pack_diff, p)
            margin_elo      == FMul(EloGet(h) - EloGet(a), p.ELO_SCALING)
            final_margin    == Fusion(margin_tactical, margin_elo, p)
        IN  [ home   |-> h,
              away   |-> a,
              margin |-> final_margin,
              prob   |-> WinProbability(final_margin, p),
              debug  |-> [ tactical  |-> margin_tactical,
                           elo       |-> margin_elo,
                           pack_diff |-> pack_diff ] ]

----------------------------------------------------------------------------
(* squad_builder.py: the identity resolver *)

\* A name is a sequence of characters; NaN is the missing cell of a table.
NaN == <<"<nan>">>

LowerChar(c) == IF c = "A" THEN "a" ELSE IF c = "B" THEN "b" ELSE c

\* str.lower()
Lower(str) == [i \in 1 .. Len(str) |-> LowerChar(str[i])]

\* str.strip()
RECURSIVE LStrip(_)
LStrip(str) ==
    IF str # <<>> /\ Head(str) = " " THEN LStrip(Tail(str)) ELSE str

RECURSIVE RStrip(_)
RStrip(str) ==
    IF str # <<>> /\ str[Len(str)] = " "
    THEN RStrip(SubSeq(str, 1, Len(str) - 1)) ELSE str

Strip(str) == RStrip(LStrip(str))

normalize_name(name) == IF name = NaN THEN <<>> ELSE Lower(Strip(name))

\* Python's "a in b" on strings
IsSubstr(a, b) ==
    \E i \in 0 .. Len(b) - Len(a) : SubSeq(b, i + 1, i + Len(a)) = a

\* str.lower() of the country spellings the model uses
CountryLower(c) ==
    IF c \in {"France", "FRANCE", "france"} THEN "france"
    ELSE IF c \in {"Ireland", "IRELAND", "ireland"} THEN "ireland"
    ELSE IF c \in {"Wales", "wales"} THEN "wales"
    ELSE c

\* the first place at which the sequence of truth values holds TRUE, 0 if none
FirstTrue(mask) ==
    IF \E i \in 1 .. Len(mask) : mask[i]
    THEN CHOOSE i \in 1 .. Len(mask) : mask[i] /\ \A j \in 1 .. i - 1 : ~mask[j]
    ELSE 0

\* the last place at which the sequence of truth values holds TRUE, 0 if none
LastTrue(mask) ==
    IF \E i \in 1 .. Len(mask) : mask[i]
    THEN CHOOSE i \in 1 .. Len(mask) : mask[i] /\ \A j \in i + 1 .. Len(mask) : ~mask[j]
    ELSE 0

\* mutant: line 23 left out, the candidates are the records of every team
match_player_data_AnyTeam(name, team, db) ==
    LET clean_name == normalize_name(name)
        Exact(r) == normalize_name(r.name) = clean_name
        found_rows == SelectSeq(db, Exact)
        Partial(r) == \/ IsSubstr(clean_name, normalize_name(r.name))
                      \/ IsSubstr(normalize_name(r.name), clean_name)
        k == FirstTrue([i \in 1 .. Len(db) |-> Partial(db[i])])
    IN  IF Len(found_rows) > 0 THEN found_rows[1]
        ELSE IF k > 0 THEN db[k]
        ELSE None

\* mutant: the containment scan does not stop at its first match
match_player_data_LastPartial(name, team, db) ==
    LET clean_name == normalize_name(name)
        InCountry(r) == CountryLower(r.country) = CountryLower(team)
        country_db == SelectSeq(db, InCountry)
        Exact(r) == normalize_name(r.name) = clean_name
        found_rows == SelectSeq(country_db, Exact)
        Partial(r) == \/ IsSubstr(clean_name, normalize_name(r.name))
                      \/ IsSubstr(normalize_name(r.name), clean_name)
        k == LastTrue([i \in 1 .. Len(country_db) |-> Partial(country_db[i])])
    IN  IF Len(found_rows) > 0 THEN found_rows[1]
        ELSE IF k > 0 THEN country_db[k]
        ELSE None

\* mutant: an empty name is not looked up
match_player_data_SkipEmpty(name, team, db) ==
    LET clean_name == normalize_name(name)
        InCountry(r) == CountryLower(r.country) = CountryLower(team)
        country_db == SelectSeq(db, InCountry)
        Exact(r) == normalize_name(r.name) = clean_name
        found_rows == SelectSeq(country_db, Exact)
        Partial(r) == \/ IsSubstr(clean_name, normalize_name(r.name))
                      \/ IsSubstr(normalize_name(r.name), clean_name)
        k == FirstTrue([i \in 1 .. Len(country_db) |-> Partial(country_db[i])])
    IN  IF clean_name = <<>> THEN None
        ELSE IF Len(found_rows) > 0 THEN found_rows[1]
        ELSE IF k > 0 THEN country_db[k]
        ELSE None

\* mutant: one pass that takes the first record matching exactly or by containment
match_player_data_OnePass(name, team, db) ==
    LET clean_name == normalize_name(name)
        InCountry(r) == CountryLower(r.country) = CountryLower(team)
        country_db == SelectSeq(db, InCountry)
        Partial(r) == \/ IsSubstr(clean_name, normalize_name(r.name))
                      \/ IsSubstr(normalize_name(r.name), clean_name)
        k == FirstTrue([i \in 1 .. Len(country_db) |-> Partial(country_db[i])])
    IN  IF k > 0 THEN country_db[k] ELSE None

match_player_data(name, team, db) ==
    LET clean_name == normalize_name(name)
        InCountry(r) == CountryLower(r.country) = CountryLower(team)
        country_db == SelectSeq(db, InCountry)
        Exact(r) == normalize_name(r.name) = clean_name
        found_rows == SelectSeq(country_db, Exact)
        Partial(r) == \/ IsSubstr(clean_name, normalize_name(r.name))
                      \/ IsSubstr(normalize_name(r.name), clean_name)
        k == FirstTrue([i \in 1 .. Len(country_db) |-> Partial(country_db[i])])
    IN  IF Len(found_rows) > 0 THEN found_rows[1]
        ELSE IF k > 0 THEN country_db[k]
        ELSE None

\* s in ascending order (insertion sort)
RECURSIVE Insert(_, _)
Insert(x, s) ==
    IF s = <<>> THEN <<x>>
    ELSE IF x =< Head(s) THEN <<x>> \o s
    ELSE <<Head(s)>> \o Insert(x, Tail(s))

RECURSIVE SortAsc(_)
SortAsc(s) == IF s = <<>> THEN <<>> ELSE Insert(Head(s), SortAsc(Tail(s)))

\* Series.quantile(0.25) of a non-empty series: linear interpolation between
\* the two order statistics around place 0.25 * (n - 1)
Quantile25(values) ==
    LET v  == SortAsc(values)
        n  == Len(v)
        lo == (n - 1) \div 4
        k  == (n - 1) % 4
    IN  IF k = 0 THEN v[lo + 1]
        ELSE v[lo + 1] + FMul(v[lo + 2] - v[lo + 1], 25 * k)

\* mutant: the percentile is taken over the whole rating table
get_country_fallback_skill_AllTeams(team, db) ==
    IF db = <<>> THEN 7000
    ELSE Quantile25([i \in 1 .. Len(db) |-> db[i].skill])

get_country_fallback_skill(team, db) ==
    LET InCountry(r) == CountryLower(r.country) = CountryLower(team)
        country_db == SelectSeq(db, InCountry)
    IN  IF country_db = <<>> THEN 7000
        ELSE Quantile25([i \in 1 .. Len(country_db) |-> country_db[i].skill])

\* get_teams_from_filename: a match file "T1-T2.xlsx" is modelled by <<T1, T2>>
get_teams_from_filename(match_file) ==
    IF Len(match_file) # 2 THEN Raise("ValueError")
    ELSE [team1 |-> match_file[1], team2 |-> match_file[2]]

----------------------------------------------------------------------------
(* optimize_params.py: loading a match's squads *)

\* mutant: the substitutes' numbers are left out
infer_position_group_StartersOnly(jersey_number) ==
    IF jersey_number \in {1, 2, 3, 4, 5, 6, 7, 8} THEN "Forwards" ELSE "Backs"

\* _infer_position_group
infer_position_group(jersey_number) ==
    IF jersey_number \in {1, 2, 3, 4, 5, 6, 7, 8, 16, 17, 18, 19, 20}
    THEN "Forwards" ELSE "Backs"

\* A file that is not there
Missing == [missing |-> TRUE]

IsMissing(f) == "missing" \in DOMAIN f

\* A cell of the Number column: an integer, a text that int() rejects, or empty
IntCell(n) == [int |-> n]

TextCell == [text |-> "x"]

NanCell == [nan |-> TRUE]

\* A lineup sheet: its column names in order and its rows; a row holds the
\* Number cell and the cells of the first and the third column.
Sheet(cols, rows) == [columns |-> cols, rows |-> rows]

\* lines 161-223: the entries one row of the sheet contributes
RowEntries(row, team1, team2, fallback_t1, fallback_t2, db) ==
    IF "int" \notin DOMAIN row.Number THEN <<>>
    ELSE
    LET jersey_number == row.Number.int
        is_starting   == IF jersey_number =< 15 THEN 1 ELSE 0
        Entry(player, t, fallback) ==
            LET data == match_player_data(player, t, db)
            IN  IF ~IsNone(data)
                THEN [ country        |-> t,
                       name           |-> data.name,
                       position_group |-> data.position_group,
                       skill          |-> data.skill,
                       starting       |-> is_starting,
                       shirt_number   |-> jersey_number ]
                ELSE [ country        |-> t,
                       name           |-> player,
                       position_group |-> infer_position_group(jersey_number),
                       skill          |-> fallback,
                       starting       |-> is_starting,
                       shirt_number   |-> jersey_number ]
    IN  (IF row.c0 # NaN THEN <<Entry(row.c0, team1, fallback_t1)>> ELSE <<>>)
        \o (IF row.c2 # NaN THEN <<Entry(row.c2, team2, fallback_t2)>> ELSE <<>>)

RECURSIVE AllEntries(_, _, _, _, _, _)
AllEntries(rows, team1, team2, fallback_t1, fallback_t2, db) ==
    IF rows = <<>> THEN <<>>
    ELSE RowEntries(Head(rows), team1, team2, fallback_t1, fallback_t2, db)
         \o AllEntries(Tail(rows), team1, team2, fallback_t1, fallback_t2, db)

\* load_match_squads(match_file), reading the lineup file `file` and the
\* rating file `db` (either may be Missing)
load_match_squads(match_file, file, db) ==
    IF IsMissing(file) \/ IsMissing(db) THEN Raise("FileNotFoundError")
    ELSE
    LET teams == get_teams_from_filename(match_file)
        HasNumber(r) == "nan" \notin DOMAIN r.Number
        rows == SelectSeq(file.rows, HasNumber)
    IN  IF IsRaise(teams) THEN teams
        ELSE IF \A i \in 1 .. Len(file.columns) : file.columns[i] # "Number"
        THEN Raise("KeyError")
        ELSE IF Len(file.columns) < 3 THEN Raise("ValueError")
        ELSE DataFrame(AllEntries(rows, teams.team1, teams.team2,
                                  get_country_fallback_skill(teams.team1, db.rows),
                                  get_country_fallback_skill(teams.team2, db.rows),
                                  db.rows))

----------------------------------------------------------------------------
(* optimize_params.py: the calibrator *)

REAL_RESULTS ==
    << [ home |-> "France", away |-> "Ireland", home_score |-> 36, away_score |-> 14,
         match_file |-> <<"France", "Ireland">> ],
       [ home |-> "Italy", away |-> "Scotland", home_score |-> 18, away_score |-> 15,
         match_file |-> <<"Italy", "Scotland">> ],
       [ home |-> "England", away |-> "Wales", home_score |-> 48, away_score |-> 7,
         match_file |-> <<"England", "Wales">> ],
       [ home |-> "Scotland", away |-> "England", home_score |-> 31, away_score |-> 20,
         match_file |-> <<"Scotland", "England">> ],
       [ home |-> "Wales", away |-> "France", home_score |-> 12, away_score |-> 54,
         match_file |-> <<"Wales", "France">> ],
       [ home |-> "Ireland", away |-> "Italy", home_score |-> 20, away_score |-> 13,
         match_file |-> <<"Ireland", "Italy">> ] >>

\* np.mean
Mean(values) == RoundDiv(SumSeq(values), Len(values))

\* np.max
RECURSIVE MaxOf(_)
MaxOf(values) ==
    IF Len(values) = 1 THEN values[1]
    ELSE LET m == MaxOf(Tail(values))
         IN  IF Head(values) > m THEN Head(values) ELSE m

\* the greatest r with r * r =< n, by bisection
SqrtFloor(n) ==
    LET search[lo \in Nat, hi \in Nat] ==
            IF lo >= hi THEN lo
            ELSE LET mid == (lo + hi + 1) \div 2
                 IN  IF mid * mid =< n THEN search[mid, hi] ELSE search[lo, mid - 1]
    IN  search[0, IF n < 40000 THEN n ELSE 40000]

\* np.sqrt, rounded to the nearest unit
Sqrt(x) ==
    LET n == x * Scale
        r == SqrtFloor(n)
    IN  IF n - r * r > r THEN r + 1 ELSE r

\* mutant: the draw band takes in a predicted margin of exactly 3
IsCorrectWinner_BandInclusive(real_margin, pred_margin) ==
    \/ real_margin > 0 /\ pred_margin > 0
    \/ real_margin < 0 /\ pred_margin < 0
    \/ real_margin = 0 /\ Abs(pred_margin) =< 3 * Scale

\* lines 89-93
IsCorrectWinner(real_margin, pred_margin) ==
    \/ real_margin > 0 /\ pred_margin > 0
    \/ real_margin < 0 /\ pred_margin < 0
    \/ real_margin = 0 /\ Abs(pred_margin) < 3 * Scale

calculate_metrics(predictions, real_results) ==
    IF predictions = <<>> THEN Raise("ValueError")
    ELSE
    LET n == IF Len(predictions) < Len(real_results)
             THEN Len(predictions) ELSE Len(real_results)
        real_margin(i) ==
            (real_results[i].home_score - real_results[i].away_score) * Scale
        errors == [i \in 1 .. n |-> Abs(predictions[i].margin - real_margin(i))]
        Correct(i) == IsCorrectWinner(real_margin(i), predictions[i].margin)
        correct_winners == Cardinality({i \in 1 .. n : Correct(i)})
    IN  IF \E i \in 1 .. n : "margin" \notin DOMAIN predictions[i]
        THEN Raise("KeyError")
        \* np.max of no errors (line 101)
        ELSE IF n = 0 THEN Raise("ValueError")
        ELSE [ rmse            |-> Sqrt(Mean([i \in 1 .. n |-> FMul(errors[i], errors[i])])),
               mae             |-> Mean(errors),
               max_error       |-> MaxOf(errors),
               correct_winners |-> correct_winners,
               accuracy        |-> FMul(FDiv(correct_winners * Scale,
                                             Len(real_results) * Scale),
                                        100 * Scale) ]

\* lines 244-247: the trial's own copy of the default parameters
TrialConfig(tactical_weight, home_advantage) ==
    [default_config EXCEPT !.WEIGHT_MODEL_TACTICAL = tactical_weight,
                           !.WEIGHT_MODEL_ELO = Scale - tactical_weight,
                           !.HOME_ADVANTAGE = home_advantage]

\* line 244 without copy.deepcopy: config would be the module's dict itself
AfterEvaluateParams_Aliased(tactical_weight, home_advantage) ==
    TrialConfig(tactical_weight, home_advantage)

\* lines 244-263: the module's dict when evaluate_params is left.  The three
\* assignments go to the deep copy, and simulate_match and
\* get_tactical_metrics only read the dict they are given.
AfterEvaluateParams(tactical_weight, home_advantage) == default_config

\* lines 253-259: one match of a trial, read from the data directory dir
\* and the rating file db
MatchPrediction(match, config, dir, db) ==
    LET Predict(d) == IF IsRaise(d) THEN d
                      ELSE simulate_match(match.home, match.away, d, config)
    IN  CHOOSE p \in { Predict(d) :
                         d \in {load_match_squads(match.match_file,
                                                  dir[match.match_file], db)} } : TRUE

\* lines 249-260: what each match of REAL_RESULTS gives under config
TrialPredictions(config, dir, db) ==
    [ i \in 1 .. Len(real_matches) |-> MatchPrediction(real_matches[i], config, dir, db) ]

\* lines 261-263 with continue for return None: a match that raised would be
\* left out and the loop would go on
PredictionsAtReturn_SkipFailed(outcomes) ==
    [list |-> SelectSeq(outcomes, LAMBDA p : ~IsRaise(p))]

\* lines 260-265: the predictions list when the loop is left for line 265;
\* None when a match raised, because the except clause returns at once
PredictionsAtReturn(outcomes) ==
    IF \E i \in 1 .. Len(outcomes) : IsRaise(outcomes[i]) THEN None
    ELSE [list |-> outcomes]

\* lines 261-265: None when a match raised (the except clause), else what
\* calculate_metrics, which is called outside the try block, returns or raises
TrialMetrics(predictions) ==
    LET Metrics(handed) == IF IsNone(handed) THEN None
                           ELSE calculate_metrics(handed.list, real_matches)
    IN  CHOOSE metrics \in { Metrics(handed) :
                                handed \in {PredictionsAtReturn(predictions)} } : TRUE

evaluate_params(tactical_weight, home_advantage, dir, db) ==
    CHOOSE metrics \in
        { TrialMetrics(predictions) :
            predictions \in { TrialPredictions(TrialConfig(tactical_weight, home_advantage),
                                               dir, db) } } : TRUE

\* lines 286-287
tactical_weights == <<50, 55, 60, 65, 70, 75, 80>>

home_advantages == <<0, 100, 200, 300, 400, 500>>

total_combinations == Len(tactical_weights) * Len(home_advantages)

\* float("inf"): above every number the model can hold
Inf == 2147483647

\* mutant: line 318 with the comparison turned round, the first scored trial
\* still taken
IsNewBest_Reversed(rmse, best) == best = Inf \/ rmse > best

\* line 318
IsNewBest(rmse, best) == rmse < best

\* DataFrame.sort_values("rmse"): ascending by rmse. The default sort kind
\* does not fix the order of rows of equal rmse: they keep their order when
\* stable, and come out reversed otherwise.
SortByRmse(s, stable) ==
    LET Before(j, i) ==
            \/ s[j].rmse < s[i].rmse
            \/ s[j].rmse = s[i].rmse /\ (IF stable THEN j < i ELSE j > i)
        Place(i) == Cardinality({ j \in 1 .. Len(s) : Before(j, i) }) + 1
    IN  [ k \in 1 .. Len(s) |-> s[CHOOSE i \in 1 .. Len(s) : Place(i) = k] ]

----------------------------------------------------------------------------
(* Each specification below runs one component; the others stay idle *)

SimIdle ==
    /\ df = DataFrame(<<>>)
    /\ home = "" /\ away = ""
    /\ params = DEFAULT_CONFIG
    /\ pred = None
    /\ report = None

ResIdle ==
    /\ db_df = <<>>
    /\ player_name = NaN
    /\ query_team = ""
    /\ found = None

LoadIdle ==
    /\ sheet = Missing
    /\ match_squad = None

EvalIdle ==
    /\ real_matches = REAL_RESULTS
    /\ trial = None
    /\ evals = <<>>

MetricIdle ==
    /\ predictions_arg = <<>>
    /\ real_results_arg = <<>>
    /\ metrics_result = None

GridIdle ==
    /\ files = <<>>
    /\ changed = FALSE
    /\ pc = "idle"
    /\ counter = 0
    /\ results = <<>>
    /\ best_rmse = Inf
    /\ best_params = None
    /\ results_df = None
    /\ current_metrics = None
    /\ improvement = None
    /\ raised = None
    /\ trials = <<>>
    /\ default_config = DEFAULT_CONFIG

----------------------------------------------------------------------------
(* Inputs of the resolver: bounded rating tables and queries *)

\* most records in a rating table
MaxTable == 3

DbNames == { <<"a">>, <<"A", "b">>, <<"b", "a", " ">>, <<" ", "A">>, NaN }

DbCountries == {"FRANCE", "Ireland"}

QueryNames == { <<"a">>, <<"a", "b">>, <<" ", "B", "A">>, <<"b">>, <<" ">>, <<"a", "b", "a">>,
                NaN }

QueryTeams == {"France", "ireland", "Wales"}

\* the record at place i of a table: its rating and position group tell the places apart
RatingRow(i, name, c) ==
    [ name           |-> name,
      country        |-> c,
      position_group |-> IF i % 2 = 1 THEN "Forwards" ELSE "Backs",
      skill          |-> 6000 + 1000 * i ]

ResolverTables ==
    UNION { { [i \in 1 .. n |-> RatingRow(i, f[i][1], f[i][2])] :
                f \in [1 .. n -> DbNames \X DbCountries] } : n \in 0 .. MaxTable }

InitResolve ==
    /\ db_df \in ResolverTables
    /\ player_name = NaN
    /\ query_team = ""
    /\ found = None
    /\ SimIdle
    /\ LoadIdle
    /\ GridIdle
    /\ EvalIdle
    /\ MetricIdle

\* one lookup of a lineup entry
MatchPlayerData ==
    /\ query_team = ""
    /\ \E q \in QueryNames, t \in QueryTeams :
          /\ player_name' = q
          /\ query_team' = t
          /\ found' = match_player_data(q, t, db_df)
    /\ UNCHANGED <<db_df, simVars, loadVars, gridVars, evalVars, metricVars>>

NextResolve == MatchPlayerData

SpecResolve == InitResolve /\ [][NextResolve]_vars

----------------------------------------------------------------------------
(* Inputs of the loader: bounded rating tables and lineup sheets *)

\* most rating records of the first team
MaxRatings == 3

\* most rows of a lineup sheet
MaxRows == 2

LetterAt == <<"a", "b", "c", "d", "e", "f">>

LoadSkills == {6000, 9000}

\* the first team's records, named a, b, c, ... in table order
FranceRows(skills) ==
    [ i \in 1 .. Len(skills) |->
        [ name           |-> <<LetterAt[i]>>,
          country        |-> "France",
          position_group |-> IF skills[i] = 6000 THEN "Backs" ELSE "Forwards",
          skill          |-> skills[i] ] ]

IrelandRow ==
    [name |-> <<"a">>, country |-> "Ireland", position_group |-> "Backs", skill |-> 8000]

LoadTables ==
    UNION { { FranceRows(sk) : sk \in [1 .. n -> LoadSkills] } : n \in 0 .. MaxRatings }
    \cup
    UNION { { <<IrelandRow>> \o FranceRows(sk) : sk \in [1 .. n -> LoadSkills] } :
              n \in 0 .. MaxRatings }

\* "a" is in the rating table when its team has a record, "z" never is
SheetCells == { <<(<<"a">>), (<<"A", " ">>)>>, <<(<<"z">>), (<<"z">>)>>, <<(<<"z">>), NaN>> }

SheetRows ==
    { [Number |-> IntCell(n), c0 |-> c[1], c2 |-> c[2]] : n \in {1, 9, 16, 24}, c \in SheetCells }

LoadSheets ==
    { Sheet(<<"France", "Number", "Ireland">>, rows) :
        rows \in UNION { [1 .. n -> SheetRows] : n \in 0 .. MaxRows } }

InitLoad ==
    /\ db_df \in LoadTables
    /\ sheet \in LoadSheets
    /\ match_squad = None
    /\ player_name = NaN
    /\ query_team = ""
    /\ found = None
    /\ SimIdle
    /\ GridIdle
    /\ EvalIdle
    /\ MetricIdle

\* one load of the France-Ireland lineup
LoadMatchSquads ==
    /\ IsNone(match_squad)
    /\ match_squad' = load_match_squads(<<"France", "Ireland">>, sheet, [rows |-> db_df])
    /\ UNCHANGED <<sheet, resVars, simVars, gridVars, evalVars, metricVars>>

NextLoad == LoadMatchSquads

SpecLoad == InitLoad /\ [][NextLoad]_vars

----------------------------------------------------------------------------
(* Inputs of the predictor: bounded tables and parameter sets *)

\* most players of one team in a table
MaxSquad == 2

Teams == {"England", "Wales", "Georgia", "Spain"}

\* the two countries of a match-ready table
TablePairs == {<<"England", "Wales">>, <<"Georgia", "Spain">>}

\* players a squad is drawn from, in shirt order
Pool ==
    << [name |-> "f1",  position_group |-> "Forwards", skill |-> 7500, starting |-> 1, shirt_number |-> 1],
       [name |-> "b9",  position_group |-> "Backs",    skill |-> 8400, starting |-> 1, shirt_number |-> 9],
       [name |-> "b12", position_group |-> "Backs",    skill |-> 7700, starting |-> 1, shirt_number |-> 12],
       [name |-> "f16", position_group |-> "Forwards", skill |-> 7200, starting |-> 0, shirt_number |-> 16],
       [name |-> "f19", position_group |-> "Forwards", skill |-> 8300, starting |-> 0, shirt_number |-> 19],
       [name |-> "b21", position_group |-> "Backs",    skill |-> 7300, starting |-> 0, shirt_number |-> 21] >>

Squads == {s \in SUBSET (1 .. Len(Pool)) : Cardinality(s) <= MaxSquad}

\* the rows of squad s (a set of Pool indexes) playing for country c
RECURSIVE SquadRowsFrom(_, _, _)
SquadRowsFrom(i, s, c) ==
    IF i > Len(Pool) THEN <<>>
    ELSE (IF i \in s
          THEN << [ country        |-> c,
                    name           |-> Pool[i].name,
                    position_group |-> Pool[i].position_group,
                    skill          |-> Pool[i].skill,
                    starting       |-> Pool[i].starting,
                    shirt_number   |-> Pool[i].shirt_number ] >>
          ELSE <<>>) \o SquadRowsFrom(i + 1, s, c)

SquadRows(s, c) == SquadRowsFrom(1, s, c)

\* a table with the header row only (a CSV of no players)
HeaderOnly == [columns |-> AllCols, rows |-> <<>>]

SimTables ==
    { DataFrame(SquadRows(s1, tp[1]) \o SquadRows(s2, tp[2])) :
        s1 \in Squads, s2 \in Squads, tp \in TablePairs }
    \cup {HeaderOnly}

ParamSets ==
    { DEFAULT_CONFIG,
      [DEFAULT_CONFIG EXCEPT !.HOME_ADVANTAGE = 0,
                             !.MISMATCH_THRESHOLD = 350, !.MISMATCH_BONUS = 300],
      [DEFAULT_CONFIG EXCEPT !.WEIGHT_MODEL_TACTICAL = 50, !.WEIGHT_MODEL_ELO = 50,
                             !.HOME_ADVANTAGE = 500, !.STD_DEV = 1000] }

----------------------------------------------------------------------------
(* The predictor's run: one simulate_match call, then its report *)

InitSim ==
    /\ df \in SimTables
    /\ home = "" /\ away = ""
    /\ params = DEFAULT_CONFIG
    /\ pred = None
    /\ report = None
    /\ ResIdle
    /\ LoadIdle
    /\ GridIdle
    /\ EvalIdle
    /\ MetricIdle

SimulateMatch ==
    /\ IsNone(pred)
    /\ \E h \in Teams, a \in Teams, p \in ParamSets :
          /\ home' = h /\ away' = a /\ params' = p
          /\ pred' = simulate_match(h, a, df, p)
    /\ UNCHANGED <<df, report, resVars, loadVars, gridVars, evalVars, metricVars>>

\* match_predictor.py lines 187-210
Report ==
    /\ ~IsNone(pred)
    /\ IsNone(report)
    /\ ~IsRaise(pred)
    /\ report' =
          IF "error" \in DOMAIN pred THEN [printed |-> pred.error]
          ELSE [ winner |-> IF pred.margin > 0 THEN home ELSE away,
                 margin |-> Abs(pred.margin),
                 prob   |-> IF pred.margin > 0 THEN pred.prob ELSE 2 * Scale - pred.prob,
                 alert  |-> Abs(pred.debug.pack_diff) > default_config.MISMATCH_THRESHOLD ]
    /\ UNCHANGED <<df, home, away, params, pred, resVars, loadVars, gridVars, evalVars, metricVars>>

NextSim == SimulateMatch \/ Report

SpecSim == InitSim /\ [][NextSim]_vars

----------------------------------------------------------------------------
(* Inputs of the calibrator: the rating file and the data directory *)

\* the rating file: a forward "a" and a back "b" for each of the six teams
GridSkills ==
    [ France |-> <<8800, 8600>>, Ireland |-> <<8500, 8700>>, England |-> <<8400, 8300>>,
      Scotland |-> <<8000, 8200>>, Italy |-> <<7600, 7800>>, Wales |-> <<7400, 7500>> ]

GridTeams == <<"France", "Ireland", "England", "Scotland", "Italy", "Wales">>

GridRatings ==
    [ i \in 1 .. 2 * Len(GridTeams) |->
        LET t == GridTeams[(i + 1) \div 2]
        IN  IF i % 2 = 1
            THEN [ name |-> <<"a">>, country |-> t, position_group |-> "Forwards",
                   skill |-> GridSkills[t][1] ]
            ELSE [ name |-> <<"b">>, country |-> t, position_group |-> "Backs",
                   skill |-> GridSkills[t][2] ] ]

\* a lineup both teams of which field their forward at 1 and their back at 10
GoodSheet(match_file) ==
    Sheet(<<match_file[1], "Number", match_file[2]>>,
          << [Number |-> IntCell(1), c0 |-> <<"a">>, c2 |-> <<"A", " ">>],
             [Number |-> IntCell(10), c0 |-> <<"b">>, c2 |-> <<"b">>] >>)

\* the second team's column is empty: the table holds the first team only
AwayEmptySheet(match_file) ==
    Sheet(<<match_file[1], "Number", match_file[2]>>,
          << [Number |-> IntCell(1), c0 |-> <<"a">>, c2 |-> NaN],
             [Number |-> IntCell(10), c0 |-> <<"b">>, c2 |-> NaN] >>)

\* no row has a shirt number: the table has no entries
UnnumberedSheet(match_file) ==
    Sheet(<<match_file[1], "Number", match_file[2]>>,
          << [Number |-> NanCell, c0 |-> <<"a">>, c2 |-> <<"a">>],
             [Number |-> TextCell, c0 |-> <<"b">>, c2 |-> <<"b">>] >>)

MatchFiles == { REAL_RESULTS[i].match_file : i \in 1 .. Len(REAL_RESULTS) }

GoodFiles == [f \in MatchFiles |-> GoodSheet(f)]

\* the lineup files that may be wrong, and what may stand in their place
FaultyFiles == { <<"France", "Ireland">>, <<"Ireland", "Italy">> }

FileVersions(f) == { GoodSheet(f), AwayEmptySheet(f), UnnumberedSheet(f), Missing }

Directories ==
    UNION { { [GoodFiles EXCEPT ![f] = v] : v \in FileVersions(f) } : f \in FaultyFiles }

----------------------------------------------------------------------------
(* The calibrator's run: grid_search *)

InitGrid ==
    /\ files \in Directories
    /\ changed = FALSE
    /\ pc = "loop"
    /\ counter = 0
    /\ results = <<>>
    /\ best_rmse = Inf
    /\ best_params = None
    /\ results_df = None
    /\ current_metrics = None
    /\ improvement = None
    /\ raised = None
    /\ trials = <<>>
    /\ default_config = DEFAULT_CONFIG
    /\ db_df = GridRatings
    /\ player_name = NaN
    /\ query_team = ""
    /\ found = None
    /\ SimIdle
    /\ LoadIdle
    /\ EvalIdle
    /\ MetricIdle

\* the matches of a trial that raised or gave an error result
FailedMatches(predictions) ==
    { i \in 1 .. Len(predictions) :
        IsRaise(predictions[i]) \/ "error" \in DOMAIN predictions[i] }

\* lines 298-325: one pass of the loop body. The evaluate_params call of line
\* 302 is unfolded into its two halves, for the log to record which matches
\* failed.
GridTrial ==
    /\ pc = "loop"
    /\ counter < total_combinations
    /\ \E tactical \in {tactical_weights[(counter \div Len(home_advantages)) + 1]},
          home_adv \in {home_advantages[(counter % Len(home_advantages)) + 1]} :
       \E predictions \in {TrialPredictions(TrialConfig(tactical, home_adv),
                                             files, [rows |-> db_df])} :
       \E metrics \in {TrialMetrics(predictions)} :
       LET result   == [ tactical_weight |-> tactical,
                         elo_weight      |-> Scale - tactical,
                         home_advantage  |-> home_adv,
                         rmse            |-> metrics.rmse,
                         mae             |-> metrics.mae,
                         max_error       |-> metrics.max_error,
                         correct_winners |-> metrics.correct_winners,
                         accuracy        |-> metrics.accuracy ]
           call     == [ tactical_weight |-> tactical,
                         home_advantage  |-> home_adv,
                         config  |-> TrialConfig(tactical, home_adv),
                         failed  |-> FailedMatches(predictions),
                         outcome |-> IF IsRaise(metrics) THEN "raised"
                                     ELSE IF IsNone(metrics) THEN "discarded"
                                     ELSE "scored" ]
       IN  /\ counter' = counter + 1
           /\ trials' = Append(trials, call)
           /\ default_config' = AfterEvaluateParams(tactical, home_adv)
           /\ IF IsRaise(metrics)
              THEN /\ pc' = "raised"
                   /\ raised' = metrics
                   /\ UNCHANGED <<results, best_rmse, best_params>>
              ELSE IF IsNone(metrics)
              THEN UNCHANGED <<pc, raised, results, best_rmse, best_params>>
              ELSE /\ results' = Append(results, result)
                   /\ IF IsNewBest(metrics.rmse, best_rmse)
                      THEN best_rmse' = metrics.rmse /\ best_params' = result
                      ELSE UNCHANGED <<best_rmse, best_params>>
                   /\ UNCHANGED <<pc, raised>>
    /\ UNCHANGED <<files, changed, results_df, current_metrics, improvement,
                   simVars, resVars, loadVars, evalVars, metricVars>>

\* lines 327-330: after the loop
Rank ==
    /\ pc = "loop"
    /\ counter = total_combinations
    /\ IF results = <<>>
       THEN /\ pc' = "raised"
            /\ raised' = Raise("RuntimeError")
            /\ UNCHANGED results_df
       ELSE /\ \E stable \in BOOLEAN : results_df' = SortByRmse(results, stable)
            /\ pc' = "compare"
            /\ UNCHANGED raised
    /\ UNCHANGED <<files, changed, counter, results, best_rmse, best_params,
                   current_metrics, improvement, trials, default_config,
                   simVars, resVars, loadVars, evalVars, metricVars>>

\* lines 360-390: the comparison with the default parameters, and the return
Compare ==
    /\ pc = "compare"
    /\ \E metrics \in {evaluate_params(default_config.WEIGHT_MODEL_TACTICAL,
                                         default_config.HOME_ADVANTAGE,
                                         files, [rows |-> db_df])} :
           IF IsRaise(metrics)
           THEN /\ pc' = "raised"
                /\ raised' = metrics
                /\ UNCHANGED <<current_metrics, improvement>>
           ELSE IF IsNone(metrics)
           THEN /\ current_metrics' = metrics
                /\ pc' = "raised"
                /\ raised' = Raise("TypeError")
                /\ UNCHANGED improvement
           ELSE IF metrics.rmse = 0
           THEN /\ current_metrics' = metrics
                /\ pc' = "raised"
                /\ raised' = Raise("ZeroDivisionError")
                /\ UNCHANGED improvement
           ELSE /\ current_metrics' = metrics
                /\ improvement' = FMul(FDiv(metrics.rmse - best_params.rmse, metrics.rmse),
                                       100 * Scale)
                /\ pc' = "done"
                /\ UNCHANGED raised
    /\ default_config' = AfterEvaluateParams(default_config.WEIGHT_MODEL_TACTICAL,
                                             default_config.HOME_ADVANTAGE)
    /\ UNCHANGED <<files, changed, counter, results, best_rmse, best_params,
                   results_df, trials, simVars, resVars, loadVars, evalVars, metricVars>>

\* the environment: a lineup file is replaced while the search runs
FileChanges ==
    /\ pc \in {"loop", "compare"}
    /\ ~changed
    /\ \E f \in FaultyFiles :
          \E v \in FileVersions(f) :
             /\ v # files[f]
             /\ files' = [files EXCEPT ![f] = v]
    /\ changed' = TRUE
    /\ UNCHANGED <<pc, counter, results, best_rmse, best_params, results_df,
                   current_metrics, improvement, raised, trials, default_config,
                   simVars, resVars, loadVars, evalVars, metricVars>>

NextGrid == GridTrial \/ Rank \/ Compare \/ FileChanges

SpecGrid == InitGrid /\ [][NextGrid]_vars

----------------------------------------------------------------------------
(* Properties of simulate_match (under SpecSim) *)

\* a simulate_match call has returned or raised
Called == ~IsNone(pred)

\* the call returned a prediction
Predicted == Called /\ "margin" \in DOMAIN pred

\* the table holds at least one player of team t
HasData(t) == \E i \in 1 .. Len(df.rows) : df.rows[i].country = t

\* the same call with home and away exchanged
Swapped == simulate_match(away, home, df, params)

\* C2: whenever either team has no resolved player, simulate_match does not
\* raise, returns an error result, and the result names exactly the team(s)
\* that lacked data.
C2_ErrorResultIdentifiesMissingTeams ==
    (Called /\ (~HasData(home) \/ ~HasData(away))) =>
        /\ ~IsRaise(pred)
        /\ "error" \in DOMAIN pred
        /\ {pred.error.names[i] : i \in 1 .. Len(pred.error.names)}
              = {t \in {home, away} : ~HasData(t)}

\* C3 (as claimed): exchanging home and away negates final_margin and turns the
\* home win probability p into 1 - p.
C3_SwapNegatesMargin ==
    (Predicted /\ home # away) =>
        /\ Swapped.margin = -pred.margin
        /\ Swapped.prob = 2 * Scale - pred.prob

\* C3 (amended): exchanging home and away negates the tactical margin, the ELO
\* margin and pack_diff, and so negates final_margin less HOME_ADVANTAGE;
\* final_margin itself is negated, and the probability becomes 1 - p, when
\* HOME_ADVANTAGE is 0.
C3_SwapNegatesMarginLessHomeAdvantage ==
    Predicted =>
        /\ Swapped.debug.tactical = -pred.debug.tactical
        /\ Swapped.debug.elo = -pred.debug.elo
        /\ Swapped.debug.pack_diff = -pred.debug.pack_diff
        /\ Swapped.margin - params.HOME_ADVANTAGE
              = -(pred.margin - params.HOME_ADVANTAGE)
        /\ params.HOME_ADVANTAGE = 0 =>
              /\ Swapped.margin = -pred.margin
              /\ Swapped.prob = 2 * Scale - pred.prob

C3_Witness ==
    /\ Predicted
    /\ home # away
    /\ params.HOME_ADVANTAGE = 0
    /\ pred.debug.elo # 0
    /\ Abs(pred.debug.pack_diff) > params.MISMATCH_THRESHOLD
    /\ pred.prob # Scale

C5_MismatchBonusIsStep ==
    Predicted =>
        LET hm   == get_tactical_metrics(df, home, params)
            am   == get_tactical_metrics(df, away, params)
            base == FMul(hm.total_score - am.total_score, params.TACTICAL_SCALING_FACTOR)
            inc  == pred.debug.tactical - base
            pd   == pred.debug.pack_diff
            T    == params.MISMATCH_THRESHOLD
        IN  /\ pd = FMul(70, hm.pack_xv) + FMul(30, hm.pack_bench)
                    - FMul(70, am.pack_xv) - FMul(30, am.pack_bench)
            /\ pd > T => inc = params.MISMATCH_BONUS
            /\ pd < -T => inc = -params.MISMATCH_BONUS
            /\ (pd =< T /\ pd >= -T) => inc = 0

\* pack_diff = 4.1 under the default parameters, bonus +5.0
C5_Witness ==
    /\ Predicted
    /\ params = DEFAULT_CONFIG
    /\ pred.debug.pack_diff = 410
    /\ pred.debug.tactical
          = FMul(get_tactical_metrics(df, home, params).total_score
                 - get_tactical_metrics(df, away, params).total_score, 85) + 500

\* the rows of team t, the country left out
SquadOf(t) ==
    LET InTeam(r) == r.country = t
        rows == SelectSeq(df.rows, InTeam)
    IN  [ i \in 1 .. Len(rows) |->
            <<rows[i].position_group, rows[i].skill, rows[i].starting, rows[i].shirt_number>> ]

\* C10: two teams with identical resolved squads and equal historical ratings:
\* final_margin is HOME_ADVANTAGE exactly, the tactical and ELO margins are 0
\* and no mismatch bonus applies, whatever the other parameters.
C10_EqualTeamsGiveHomeAdvantage ==
    (Predicted /\ SquadOf(home) = SquadOf(away) /\ EloGet(home) = EloGet(away)) =>
        /\ pred.margin = params.HOME_ADVANTAGE
        /\ pred.debug.tactical = 0
        /\ pred.debug.elo = 0
        /\ pred.debug.pack_diff = 0

C10_Witness ==
    /\ Predicted
    /\ home # away
    /\ Len(SquadOf(home)) = MaxSquad
    /\ SquadOf(home) = SquadOf(away)
    /\ EloGet(home) = EloGet(away)
    /\ params = DEFAULT_CONFIG
    /\ pred.margin = 200

----------------------------------------------------------------------------
(* Properties of match_player_data (under SpecResolve) *)

\* a lookup has returned
Looked == query_team # ""

\* record i of the table belongs to the queried team
OfTeam(i) == CountryLower(db_df[i].country) = CountryLower(query_team)

\* record i equals the query after normalization
ExactAt(i) == OfTeam(i) /\ normalize_name(db_df[i].name) = normalize_name(player_name)

\* record i contains the normalized query or is contained in it
ContainsAt(i) ==
    /\ OfTeam(i)
    /\ \/ IsSubstr(normalize_name(player_name), normalize_name(db_df[i].name))
       \/ IsSubstr(normalize_name(db_df[i].name), normalize_name(player_name))

\* C6: when some record of the team equals the query after normalization, the
\* lookup returns the first such record in table order, also when a record of
\* the team that matches only by containment comes earlier.
C6_ExactMatchTakesPrecedence ==
    (Looked /\ \E i \in 1 .. Len(db_df) : ExactAt(i)) =>
        \E i \in 1 .. Len(db_df) :
            /\ ExactAt(i)
            /\ \A j \in 1 .. i - 1 : ~ExactAt(j)
            /\ found = db_df[i]

C6_Witness ==
    /\ Looked
    /\ normalize_name(player_name) # <<>>
    /\ \E i \in 1 .. Len(db_df), j \in 1 .. Len(db_df) :
          /\ j < i
          /\ normalize_name(db_df[j].name) # <<>>
          /\ ContainsAt(j) /\ ~ExactAt(j)
          /\ ExactAt(i)
          /\ found = db_df[i]

\* C14: the lookup never returns a record of another team: a returned record's
\* country is the queried team's, letter case aside, whichever pass found it,
\* and the lookup is unresolved when the team has no record, also when another
\* team has a record of exactly the queried name.
C14_NeverReturnsOtherTeam ==
    Looked =>
        /\ ~IsNone(found) => CountryLower(found.country) = CountryLower(query_team)
        /\ (\A i \in 1 .. Len(db_df) : ~OfTeam(i)) => IsNone(found)

\* the table holds a record of another team with exactly the queried name,
\* before the team's own record that the containment pass returned
C14_Witness ==
    /\ Looked
    /\ ~IsNone(found)
    /\ normalize_name(player_name) # <<>>
    /\ \A i \in 1 .. Len(db_df) : ~ExactAt(i)
    /\ \E i \in 1 .. Len(db_df), j \in 1 .. Len(db_df) :
          /\ j < i
          /\ ~OfTeam(j)
          /\ normalize_name(db_df[j].name) = normalize_name(player_name)
          /\ found = db_df[i]

\* no record of the team equals the query after normalization
NoExact == \A i \in 1 .. Len(db_df) : ~ExactAt(i)

\* C16: when no record of the team matches the query exactly, the lookup
\* returns the first record of the team, in table order, whose normalized name
\* is contained in the normalized query or contains it, and never a later one;
\* the lookup is unresolved exactly when no record of the team matches in
\* either pass.
C16_FirstContainmentMatch ==
    /\ (Looked /\ NoExact /\ \E i \in 1 .. Len(db_df) : ContainsAt(i)) =>
          \E i \in 1 .. Len(db_df) :
             /\ ContainsAt(i)
             /\ \A j \in 1 .. i - 1 : ~ContainsAt(j)
             /\ found = db_df[i]
    /\ Looked =>
          (IsNone(found) <=> \A i \in 1 .. Len(db_df) : ~ExactAt(i) /\ ~ContainsAt(i))

\* two records of the team match by containment and neither exactly; the
\* earlier one was returned
C16_Witness ==
    /\ Looked
    /\ NoExact
    /\ normalize_name(player_name) # <<>>
    /\ \E i \in 1 .. Len(db_df), j \in 1 .. Len(db_df) :
          /\ i < j
          /\ ContainsAt(i) /\ ContainsAt(j)
          /\ normalize_name(db_df[i].name) # <<>>
          /\ normalize_name(db_df[j].name) # <<>>
          /\ found = db_df[i]

\* record i is of the team and its name is empty after normalization
EmptyNameAt(i) == OfTeam(i) /\ normalize_name(db_df[i].name) = <<>>

\* C17: a query whose name is empty after normalization (missing, or blanks
\* only) is resolved whenever the team has a record: to the first record of
\* the team with an empty name if there is one, else to the first record of
\* the team.  And a record of the team with an empty name matches every query
\* by containment: the lookup is then resolved, by an exact match or by a
\* record not after that one.
C17_EmptyNameMatchesAnything ==
    /\ (Looked /\ normalize_name(player_name) = <<>>
               /\ \E i \in 1 .. Len(db_df) : OfTeam(i)) =>
          /\ ~IsNone(found)
          /\ \E i \in 1 .. Len(db_df) :
                /\ found = db_df[i]
                /\ OfTeam(i)
                /\ IF \E k \in 1 .. Len(db_df) : EmptyNameAt(k)
                   THEN EmptyNameAt(i) /\ \A j \in 1 .. i - 1 : ~EmptyNameAt(j)
                   ELSE \A j \in 1 .. i - 1 : ~OfTeam(j)
    /\ Looked =>
          \A k \in 1 .. Len(db_df) :
             EmptyNameAt(k) =>
                /\ ~IsNone(found)
                /\ NoExact => \E i \in 1 .. k : OfTeam(i) /\ found = db_df[i]

\* a name of blanks only was looked up in a team whose records all have names:
\* the team's first record was returned, a record of another team before it
C17_Witness ==
    /\ Looked
    /\ player_name # NaN
    /\ normalize_name(player_name) = <<>>
    /\ \A k \in 1 .. Len(db_df) : ~EmptyNameAt(k)
    /\ \E i \in 2 .. Len(db_df) :
          /\ found = db_df[i]
          /\ \A j \in 1 .. i - 1 : ~OfTeam(j)

----------------------------------------------------------------------------
(* Properties of load_match_squads (under SpecLoad) *)

\* the load returned a table
Loaded == "rows" \in DOMAIN match_squad

\* the places of team c's records in the rating table
RecordsOf(c) == {i \in 1 .. Len(db_df) : CountryLower(db_df[i].country) = CountryLower(c)}

\* entry r of the loaded table was left unresolved: no record of its team
\* equals, contains or is contained in its name
Unresolved(r) ==
    \A i \in RecordsOf(r.country) :
        /\ ~IsSubstr(normalize_name(r.name), normalize_name(db_df[i].name))
        /\ ~IsSubstr(normalize_name(db_df[i].name), normalize_name(r.name))

\* the k-th smallest rating of team c (k from 1)
OrderStat(c, k) ==
    CHOOSE x \in {db_df[i].skill : i \in RecordsOf(c)} :
        /\ Cardinality({i \in RecordsOf(c) : db_df[i].skill < x}) < k
        /\ Cardinality({i \in RecordsOf(c) : db_df[i].skill =< x}) >= k

\* v is the 25th percentile of team c's ratings: the point a quarter of the
\* way along the sorted ratings, by linear interpolation, up to rounding
IsPercentile25(v, c) ==
    LET n  == Cardinality(RecordsOf(c))
        lo == (n - 1) \div 4
        k  == (n - 1) % 4
        a  == OrderStat(c, lo + 1)
        b  == IF k = 0 THEN a ELSE OrderStat(c, lo + 2)
    IN  Abs(4 * (v - a) - k * (b - a)) =< 2

\* C7: every unresolved entry has its own team's fallback skill: the 25th
\* percentile of the team's ratings, or 70.0 when the team has no record;
\* never zero, and the same for any two unresolved entries of one team.
C7_UnresolvedGetTeamFallback ==
    Loaded =>
        \A i \in 1 .. Len(match_squad.rows) :
            LET r == match_squad.rows[i]
            IN  Unresolved(r) =>
                  /\ r.skill # 0
                  /\ IF RecordsOf(r.country) = {} THEN r.skill = 7000
                     ELSE IsPercentile25(r.skill, r.country)
                  /\ \A j \in 1 .. Len(match_squad.rows) :
                        (Unresolved(match_squad.rows[j])
                         /\ match_squad.rows[j].country = r.country)
                        => match_squad.rows[j].skill = r.skill

\* two unresolved entries of a team with two different ratings, and an
\* unresolved entry of the team without records
C7_Witness ==
    /\ Loaded
    /\ \E i, j, k \in 1 .. Len(match_squad.rows) :
          /\ i # j
          /\ match_squad.rows[i].country = "France"
          /\ match_squad.rows[j].country = "France"
          /\ match_squad.rows[k].country = "Ireland"
          /\ Unresolved(match_squad.rows[i])
          /\ Unresolved(match_squad.rows[j])
          /\ Unresolved(match_squad.rows[k])
          /\ match_squad.rows[i].skill = 6750
          /\ match_squad.rows[k].skill = 7000
    /\ Cardinality(RecordsOf("France")) = 2
    /\ RecordsOf("Ireland") = {}

\* largest shirt number the inference is checked on
MaxShirt == 30

\* C8: an unresolved entry is a Forward exactly when its shirt number is in
\* 1..8 or 16..20 and a Back for every other number; a resolved entry has the
\* position group of the rating record it matched.
C8_PositionFromShirtNumber ==
    Loaded =>
        /\ \A i \in 1 .. Len(match_squad.rows) :
              LET r == match_squad.rows[i]
              IN  IF Unresolved(r)
                  THEN r.position_group
                         = IF r.shirt_number \in (1 .. 8) \cup (16 .. 20)
                           THEN "Forwards" ELSE "Backs"
                  ELSE \E k \in RecordsOf(r.country) :
                          /\ db_df[k].name = r.name
                          /\ db_df[k].skill = r.skill
                          /\ db_df[k].position_group = r.position_group
        /\ \A n \in -1 .. MaxShirt :
              infer_position_group(n)
                 = IF n \in (1 .. 8) \cup (16 .. 20) THEN "Forwards" ELSE "Backs"

\* an unresolved substitute forward, and a resolved entry wearing 1 that
\* keeps its record's group, Backs
C8_Witness ==
    /\ Loaded
    /\ \E i, j \in 1 .. Len(match_squad.rows) :
          /\ Unresolved(match_squad.rows[i])
          /\ match_squad.rows[i].shirt_number = 16
          /\ match_squad.rows[i].position_group = "Forwards"
          /\ ~Unresolved(match_squad.rows[j])
          /\ match_squad.rows[j].shirt_number = 1
          /\ match_squad.rows[j].position_group = "Backs"

----------------------------------------------------------------------------
(* Properties of grid_search (under SpecGrid) *)

\* the sweep's calls with the pair (t, h)
CallsWith(t, h) ==
    { i \in 1 .. Len(trials) :
        trials[i].tactical_weight = t /\ trials[i].home_advantage = h }

\* the rows the sweep kept for the pair (t, h)
RowsWith(t, h) ==
    { k \in 1 .. Len(results) :
        results[k].tactical_weight = t /\ results[k].home_advantage = h }

\* the trials none of whose matches failed
Survivors == { i \in 1 .. Len(trials) : trials[i].failed = {} }

\* grid_search has left its loop, by falling out of it or by an exception
SweepOver == pc \in {"compare", "done", "raised"}

\* C1: a trial in which a match fails to load or to predict (a load error, or
\* an error result because a team has no resolved player) is discarded: it is
\* not scored, it adds no row to the ranking, and the search is not ended by
\* it but goes on with the next combination.
C1_FailedTrialIsDiscarded ==
    \A i \in 1 .. Len(trials) :
        trials[i].failed # {} =>
            /\ trials[i].outcome = "discarded"
            /\ RowsWith(trials[i].tactical_weight, trials[i].home_advantage) = {}
            /\ (i = Len(trials) /\ i < total_combinations) => pc = "loop"

\* C9: when grid_search has ended, evaluate_params has been called on each of
\* the 42 pairs exactly once; the ranked table holds one row per surviving
\* trial, ascending by rmse, and the best configuration has the least rmse of
\* the surviving trials; with no surviving trial the search fails with an
\* error and returns no table.
C9_SweepCoversGridAndRanks ==
    /\ SweepOver =>
          /\ Len(trials) = 42
          /\ \A a \in 1 .. Len(tactical_weights), b \in 1 .. Len(home_advantages) :
                Cardinality(CallsWith(tactical_weights[a], home_advantages[b])) = 1
    /\ pc \in {"compare", "done"} =>
          /\ Len(results_df) = Cardinality(Survivors)
          /\ \A i \in Survivors :
                Cardinality({ k \in 1 .. Len(results_df) :
                                /\ results_df[k].tactical_weight = trials[i].tactical_weight
                                /\ results_df[k].home_advantage = trials[i].home_advantage })
                  = 1
          /\ \A k \in 1 .. Len(results_df) - 1 : results_df[k].rmse =< results_df[k + 1].rmse
          /\ \A k \in 1 .. Len(results_df) : best_params.rmse =< results_df[k].rmse
          /\ \E k \in 1 .. Len(results_df) : best_params = results_df[k]
    /\ (SweepOver /\ Survivors = {}) =>
          /\ pc = "raised"
          /\ raised = Raise("RuntimeError")
          /\ results_df = None

----------------------------------------------------------------------------
(* Properties of get_tactical_metrics, under SpecSim *)

\* the players of team t in the table that start (1) or sit on the bench (0)
PlayersOf(t, starting) ==
    SelectSeq(df.rows, LAMBDA r : r.country = t /\ r.starting = starting)

ForwardsOf(rows) == SelectSeq(rows, LAMBDA r : r.position_group = "Forwards")

BacksOf(rows) == SelectSeq(rows, LAMBDA r : r.position_group = "Backs")

HalfbacksOf(rows) == SelectSeq(BacksOf(rows), LAMBDA r : r.shirt_number \in {9, 10})

OtherBacksOf(rows) == SelectSeq(BacksOf(rows), LAMBDA r : r.shirt_number \notin {9, 10})

\* mean skill of the players, the default 70.0 when there is none
MeanSkillOrDefault(rows) ==
    IF rows = <<>> THEN 7000
    ELSE RoundDiv(SumSeq([i \in 1 .. Len(rows) |-> rows[i].skill]), Len(rows))

ControlOf(rows) ==
    IF HalfbacksOf(rows) # <<>> THEN MeanSkillOrDefault(HalfbacksOf(rows))
    ELSE MeanSkillOrDefault(BacksOf(rows))

StrikeOf(rows) ==
    IF OtherBacksOf(rows) # <<>> THEN MeanSkillOrDefault(OtherBacksOf(rows))
    ELSE MeanSkillOrDefault(BacksOf(rows))

UnitScoreOf(rows) ==
    FMul(MeanSkillOrDefault(ForwardsOf(rows)), params.WEIGHT_PACK)
    + FMul(ControlOf(rows), params.WEIGHT_CONTROL)
    + FMul(StrikeOf(rows), params.WEIGHT_STRIKE)

\* C13: get_tactical_metrics returns None exactly when the team has no
\* resolved player in the table; otherwise its total_score is the starters'
\* unit score times WEIGHT_STARTERS plus the bench's times WEIGHT_BENCH, a unit
\* score being Pack, Control and Strike weighted, Control the mean of the backs
\* wearing 9 or 10 if there are any and of all backs if not, Strike the mean of
\* the other backs if there are any and of all backs if not, and 70.0 standing
\* for every unit without players.
C13_TacticalMetricsOfTeam ==
    Called =>
        \A t \in {home, away} :
           /\ IsNone(get_tactical_metrics(df, t, params)) <=> ~HasData(t)
           /\ HasData(t) =>
                 get_tactical_metrics(df, t, params).total_score
                    = FMul(UnitScoreOf(PlayersOf(t, 1)), params.WEIGHT_STARTERS)
                      + FMul(UnitScoreOf(PlayersOf(t, 0)), params.WEIGHT_BENCH)

\* the same, for tables that have a country column
C13_HoldsOnTablesWithColumns ==
    (Called /\ "country" \in df.columns) => C13_TacticalMetricsOfTeam

----------------------------------------------------------------------------
(* evaluate_params on its own, run again after the list of historical matches
   has been extended *)

MaxMatches == 3

\* the lineup file of the first match is the one that may be faulty
EvalDirectories == { [GoodFiles EXCEPT ![REAL_RESULTS[1].match_file] = v] :
                       v \in FileVersions(REAL_RESULTS[1].match_file) }

EvalTrials == { [tactical_weight |-> tactical_weights[1],
                 home_advantage  |-> home_advantages[1]],
               [tactical_weight |-> default_config.WEIGHT_MODEL_TACTICAL,
                 home_advantage  |-> default_config.HOME_ADVANTAGE] }

InitEval ==
    /\ files \in EvalDirectories
    /\ changed = FALSE
    /\ pc = "idle"
    /\ counter = 0
    /\ results = <<>>
    /\ best_rmse = Inf
    /\ best_params = None
    /\ results_df = None
    /\ current_metrics = None
    /\ improvement = None
    /\ raised = None
    /\ trials = <<>>
    /\ default_config = DEFAULT_CONFIG
    /\ real_matches = <<>>
    /\ trial \in EvalTrials
    /\ evals = <<>>
    /\ db_df = GridRatings
    /\ player_name = NaN
    /\ query_team = ""
    /\ found = None
    /\ SimIdle
    /\ LoadIdle
    /\ MetricIdle

\* lines 228-265: one call of evaluate_params on the list as it stands, when
\* it has not been run on this list yet
EvaluateParams ==
    /\ \A k \in 1 .. Len(evals) : evals[k].matches # real_matches
    /\ \E predictions \in {TrialPredictions(TrialConfig(trial.tactical_weight,
                                                          trial.home_advantage),
                                             files, [rows |-> db_df])} :
       \E metrics \in {TrialMetrics(predictions)} :
          evals' = Append(evals, [ matches |-> real_matches,
                                   handed  |-> PredictionsAtReturn(predictions),
                                   metrics |-> metrics ])
    /\ default_config' = AfterEvaluateParams(trial.tactical_weight, trial.home_advantage)
    /\ UNCHANGED <<real_matches, trial, files, changed, pc, counter, results, best_rmse,
                   best_params, results_df, current_metrics, improvement, raised,
                   trials, simVars, resVars, loadVars, metricVars>>

\* lines 14-57: a further match is entered in the list, before or after the
\* ones it holds
ExtendResults ==
    /\ Len(real_matches) < MaxMatches
    /\ \E i \in 1 .. Len(REAL_RESULTS) :
          /\ \A j \in 1 .. Len(real_matches) : real_matches[j] # REAL_RESULTS[i]
          /\ \/ real_matches' = Append(real_matches, REAL_RESULTS[i])
             \/ real_matches' = <<REAL_RESULTS[i]>> \o real_matches
    /\ UNCHANGED <<trial, evals, gridVars, simVars, resVars, loadVars, metricVars>>

NextEval == EvaluateParams \/ ExtendResults

SpecEval == InitEval /\ [][NextEval]_vars

----------------------------------------------------------------------------
(* Properties of evaluate_params, under SpecEval *)

\* the list later holds every match of the list earlier
Extends(later, earlier) ==
    \A i \in 1 .. Len(earlier) : \E j \in 1 .. Len(later) : later[j] = earlier[i]

Discarded(e) == IsNone(e.metrics)

Survived(e) == ~IsNone(e.metrics) /\ ~IsRaise(e.metrics)

\* C12: a combination that evaluate_params discards as failed on a list of
\* historical matches is discarded on every extension of that list as well,
\* and the metrics of a combination that survives are computed from one
\* prediction, with a margin, for each match of the list: never from fewer.
C12_DiscardIsMonotoneInMatches ==
    /\ \A k1 \in 1 .. Len(evals), k2 \in 1 .. Len(evals) :
          (Extends(evals[k2].matches, evals[k1].matches) /\ Discarded(evals[k1]))
             => Discarded(evals[k2])
    /\ \A k \in 1 .. Len(evals) :
          Survived(evals[k]) =>
             /\ Len(evals[k].handed.list) = Len(evals[k].matches)
             /\ \A i \in 1 .. Len(evals[k].matches) :
                   "margin" \in DOMAIN evals[k].handed.list[i]

\* the combination survived on one match, was discarded when a match whose
\* file is missing was entered before it, and was discarded again on a
\* further extension of that list
C12_Witness ==
    /\ Len(evals) = 3
    /\ Survived(evals[1]) /\ Len(evals[1].matches) = 1
    /\ Discarded(evals[2]) /\ Extends(evals[2].matches, evals[1].matches)
    /\ evals[2].matches[2] = evals[1].matches[1]
    /\ Discarded(evals[3]) /\ Extends(evals[3].matches, evals[2].matches)
    /\ Len(evals[3].matches) = 3

----------------------------------------------------------------------------
(* calculate_metrics on its own *)

\* most predictions, and most historical matches, of a call
MaxPairs == 2

\* predicted margins, at and around the draw band of 3 points
Margins == {-300, -299, 0, 299, 300, 500}

\* results: a draw, a home win and an away win
Scores == { [home_score |-> 10, away_score |-> 10],
            [home_score |-> 20, away_score |-> 13],
            [home_score |-> 12, away_score |-> 54] }

PredictionLists ==
    UNION { [1 .. n -> { [margin |-> v] : v \in Margins }] : n \in 0 .. MaxPairs }

ResultLists == UNION { [1 .. n -> Scores] : n \in 0 .. MaxPairs }

InitMetrics ==
    /\ predictions_arg \in PredictionLists
    /\ real_results_arg \in ResultLists
    /\ metrics_result = None
    /\ SimIdle
    /\ ResIdle
    /\ LoadIdle
    /\ GridIdle
    /\ EvalIdle

\* line 265: the call
CalculateMetrics ==
    /\ IsNone(metrics_result)
    /\ metrics_result' = calculate_metrics(predictions_arg, real_results_arg)
    /\ UNCHANGED <<predictions_arg, real_results_arg,
                   simVars, resVars, loadVars, gridVars, evalVars>>

NextMetrics == CalculateMetrics

SpecMetrics == InitMetrics /\ [][NextMetrics]_vars

----------------------------------------------------------------------------
(* Properties of calculate_metrics, under SpecMetrics *)

\* the call returned metrics
Measured == ~IsNone(metrics_result) /\ ~IsRaise(metrics_result)

\* the number of predictions that have a historical match
Paired ==
    IF Len(predictions_arg) < Len(real_results_arg)
    THEN Len(predictions_arg) ELSE Len(real_results_arg)

ActualMargin(i) ==
    (real_results_arg[i].home_score - real_results_arg[i].away_score) * Scale

\* prediction i has the winner right, in the claim's terms
WinnerRight(i) ==
    \/ Sign(ActualMargin(i)) = Sign(predictions_arg[i].margin) /\ ActualMargin(i) # 0
    \/ /\ ActualMargin(i) = 0
       /\ -3 * Scale < predictions_arg[i].margin
       /\ predictions_arg[i].margin < 3 * Scale

\* C15: calculate_metrics counts a prediction as a correct winner exactly when
\* the predicted and the actual margin are both above zero or both below zero,
\* or the actual margin is zero and the predicted margin is less than 3 in
\* magnitude; correct_winners is the number of these predictions, and it is
\* never more than the number of historical matches.
C15_CorrectWinnerCount ==
    Measured =>
        /\ metrics_result.correct_winners
              = Cardinality({ i \in 1 .. Paired : WinnerRight(i) })
        /\ metrics_result.correct_winners =< Len(real_results_arg)

\* two draws, one predicted inside the band and counted, the other predicted
\* at 3 points exactly and not counted
C15_Witness ==
    /\ Measured
    /\ Len(real_results_arg) = 2 /\ Len(predictions_arg) = 2
    /\ ActualMargin(1) = 0 /\ predictions_arg[1].margin = 299
    /\ ActualMargin(2) = 0 /\ predictions_arg[2].margin = -300
    /\ metrics_result.correct_winners = 1

----------------------------------------------------------------------------
(* Properties of the default parameters, under SpecGrid *)

Overridden == {"WEIGHT_MODEL_TACTICAL", "WEIGHT_MODEL_ELO", "HOME_ADVANTAGE"}

\* C11: the default parameters are never changed by the calls of the search,
\* trials that fail part-way included: after any number of trials the module's
\* dict still has its initial contents, and each trial's configuration is the
\* defaults with that trial's own three overrides and nothing of any other
\* trial's.
C11_DefaultConfigNeverMutated ==
    /\ default_config = DEFAULT_CONFIG
    /\ \A i \in 1 .. Len(trials) :
          /\ trials[i].config.WEIGHT_MODEL_TACTICAL = trials[i].tactical_weight
          /\ trials[i].config.WEIGHT_MODEL_ELO = Scale - trials[i].tactical_weight
          /\ trials[i].config.HOME_ADVANTAGE = trials[i].home_advantage
          /\ \A key \in DOMAIN DEFAULT_CONFIG \ Overridden :
                trials[i].config[key] = DEFAULT_CONFIG[key]

\* a trial failed after some of its matches had been predicted, another trial
\* with other overrides came after it, and the comparison with the defaults
\* has run as well
C11_Witness ==
    /\ pc \in {"done", "raised"}
    /\ current_metrics # None
    /\ \E i \in 1 .. Len(trials) - 1 :
          /\ trials[i].outcome = "discarded"
          /\ 1 \notin trials[i].failed
          /\ trials[i + 1].tactical_weight # trials[i].tactical_weight

----------------------------------------------------------------------------
(* Properties of the comparison with the defaults, under SpecGrid *)

\* the trial of the sweep that ran the default pair
DefaultTrials ==
    { i \in 1 .. Len(trials) :
        /\ trials[i].tactical_weight = DEFAULT_CONFIG.WEIGHT_MODEL_TACTICAL
        /\ trials[i].home_advantage = DEFAULT_CONFIG.HOME_ADVANTAGE }

\* C18: the trials and the comparison having read the same files, whenever the
\* comparison's evaluation of the default pair succeeds the best
\* configuration's rmse is at most the default's, and the improvement that is
\* reported is not negative.
C18_ImprovementNeverNegative ==
    (~changed /\ ~IsNone(current_metrics)) =>
        /\ best_params.rmse =< current_metrics.rmse
        /\ pc = "done" => improvement >= 0

\* the search ended with the files untouched: the default pair was scored in
\* the sweep, a pair after it did better, and the improvement is above zero
C18_Witness ==
    /\ pc = "done"
    /\ ~changed
    /\ \E i \in DefaultTrials : trials[i].outcome = "scored"
    /\ best_params.rmse < current_metrics.rmse
    /\ improvement > 0

====
